---- MODULE Spec2Model ----
(***************************************************************************)
(* Model of the radar retrieval pipeline of meteo_birds / opera_retrieval: *)
(*   - get_api_data            (src/meteo_birds/utils.py)                  *)
(*   - dat_to_dat_half         (src/meteo_birds/utils.py)                  *)
(*   - OpenDataServer.get_radar_composite                                  *)
(*                             (src/opera_retrieval/open_data_server.py)   *)
(*   - odim_hdf5_to_dataset, radar_tar_to_dataset, extract_radar_da,       *)
(*     radar_tar_to_geotiff, radar_timestep_ds_to_geotiff                  *)
(*                             (src/opera_retrieval/formatting.py)         *)
(*   - compute_heading, extract_reflectivity_cone                          *)
(*                             (src/opera_retrieval/diagnostics.py)        *)
(*                                                                         *)
(* Strings are sequences of one-character strings, so that formatting and  *)
(* parsing are computed character by character.                            *)
(***************************************************************************)
EXTENDS Integers, Sequences, FiniteSets, TLC

VARIABLES
    \* ---- download / API client (get_api_data, get_radar_composite)
    pc,               \* "idle" | "loop" | "downloaded" | "done"
    caller,           \* "none" | "get_api_data" | "get_radar_composite"
    input_date,       \* get_radar_composite's input_date (NoDate for a direct call)
    output_path,      \* the path get_api_data writes to
    max_retries,
    stop_on_maxretry,
    attempt,          \* the loop variable of get_api_data
    log,              \* outcome of each attempt made so far
    sleeps,           \* number of time.sleep(5) calls
    writes,           \* number of output_path.write_bytes calls
    file0,            \* content of the output location before the call
    file,             \* content of the output location
    result,           \* "pending" | "path" | "None" | "dataset"
    exc,              \* "none" | the exception that left the call
    algo_name,
    product_name,
    \* ---- archive decoder (radar_tar_to_dataset, radar_tar_to_geotiff, extract_radar_da)
    op,               \* "idle" | "dataset" | "geotiff" | "lookup"
    dpc,              \* "idle" | "scan" | "done"
    archive,          \* tar.getmembers(): the members in stored order
    timestep,
    dat,              \* extract_radar_da's target instant
    tar_path,         \* the archive path the call opens
    exists,           \* tar_path.exists()
    idx,              \* index of the next member of the scan
    trace,            \* what the scan did with each member examined so far
    datasets,         \* the list `datasets` (tagged grids, in append order)
    tifs,             \* GeoTIFF files written by radar_tar_to_geotiff
    tar_empty,
    dresult,          \* "pending" | "series" | "grid" | "None" | "ok" | "ValueError"
    series,           \* the returned time series (radar_tar_to_dataset)
    grid,             \* the returned grid (extract_radar_da)
    \* ---- single-file decode (odim_hdf5_to_dataset)
    gpc,              \* "idle" | "read" | "masked" | "floored" | "decoded"
    hdf,              \* the HDF5 file: [ysize, xsize, data]
    noise_as_zero,
    data,             \* the raw array after the row flip
    mask,
    reflectivity,
    ds,               \* the decoded dataset: [ysize, xsize, reflectivity, mask]
    \* ---- GeoTIFF export of one grid (radar_timestep_ds_to_geotiff)
    rpc,              \* "idle" | "copied" | "filled" | "masked" | "written" | "NoDataInBounds"
    tif_ds,           \* the argument ds
    ds_copy,
    missing_value,
    refl,
    bbox,             \* "None" | the cells the clip box keeps
    raster,           \* the cell values of the GeoTIFF file
    \* ---- cone extraction (extract_reflectivity_cone)
    cpc,              \* "idle" | "bbox" | "cropped" | "geod" | "done"
    cone_ds,          \* the argument ds: [ysize, xsize, lat, lon, reflectivity]
    lat0, lon0, heading, O, R,
    mask_bbox,
    ds_sub,
    geod,             \* geod.inv from the apex to each cell of ds_sub: [az, dist]
    angle_diff,
    cone_refl,
    cexc,             \* "none" | "ValueError"
    \* ---- headings of a track (compute_heading)
    hpc,              \* "idle" | "inv" | "normalized" | "done"
    df,               \* the rows of the DataFrame (one per point)
    az0,              \* the azimuths geod.inv returned
    az,
    headings,         \* the returned Series
    hexc              \* "none" | "ValueError"

dlvars  == <<pc, caller, input_date, output_path, max_retries, stop_on_maxretry,
             attempt, log, sleeps, writes, file0, file, result, exc, algo_name,
             product_name>>
decvars == <<op, dpc, archive, timestep, dat, tar_path, exists, idx, trace,
             datasets, tifs, tar_empty, dresult, series, grid>>
gridvars == <<gpc, hdf, noise_as_zero, data, mask, reflectivity, ds>>
rastervars == <<rpc, tif_ds, ds_copy, missing_value, refl, bbox, raster>>
conevars == <<cpc, cone_ds, lat0, lon0, heading, O, R, mask_bbox, ds_sub, geod,
              angle_diff, cone_refl, cexc>>
headvars == <<hpc, df, az0, az, headings, hexc>>
diagvars == <<rastervars, conevars, headvars>>
vars == <<dlvars, decvars, gridvars, diagvars>>

(***************************************************************************)
(* Bounds of the model.                                                    *)
(***************************************************************************)
MaxRetries == 3
MaxMembers == 2
MaxPoints == 3

(***************************************************************************)
(* Characters and decimal formatting (strftime / strptime building blocks) *)
(***************************************************************************)
Digits == <<"0", "1", "2", "3", "4", "5", "6", "7", "8", "9">>

IsDigit(c) == \E i \in 1..10 : Digits[i] = c

DigitVal(c) == (CHOOSE i \in 1..10 : Digits[i] = c) - 1

RECURSIVE Pad(_, _)
\* zero-padded decimal of n on `width` characters (%02d, %04d)
Pad(n, width) ==
    IF width = 0 THEN <<>>
    ELSE Pad(n \div 10, width - 1) \o <<Digits[(n % 10) + 1]>>

RECURSIVE Num(_)
\* value of a sequence of digit characters
Num(s) ==
    IF s = <<>> THEN 0
    ELSE 10 * Num(SubSeq(s, 1, Len(s) - 1)) + DigitVal(s[Len(s)])

AllDigits(s) == \A i \in 1..Len(s) : IsDigit(s[i])

Last(s) == s[Len(s)]

(***************************************************************************)
(* Instants (datetime).  tz is "naive" (no tzinfo) or "utc".               *)
(***************************************************************************)
Instant(y, mo, d, h, mi, s, tz) ==
    [year |-> y, month |-> mo, day |-> d, hour |-> h, minute |-> mi,
     second |-> s, tz |-> tz]

NoDate == [year |-> 0, month |-> 0, day |-> 0, hour |-> 0, minute |-> 0,
           second |-> 0, tz |-> "none"]

\* a < b for instants on the same clock (datetime / numpy.datetime64 order)
TsLess(a, b) ==
    LET ka == <<a.year, a.month, a.day, a.hour, a.minute, a.second>>
        kb == <<b.year, b.month, b.day, b.hour, b.minute, b.second>>
    IN  \E i \in 1..6 : ka[i] < kb[i] /\ \A j \in 1..(i - 1) : ka[j] = kb[j]

\* (mutation) the boundary hour itself falls in the morning bucket
DatToDatHalfWrongBoundary(d) ==
    [d EXCEPT !.minute = 0, !.second = 0,
              !.hour = IF d.hour > 12 THEN 12 ELSE 0]

\* dat_to_dat_half: start of the 0-12h or 12-24h half-day
DatToDatHalf(d) ==
    [d EXCEPT !.minute = 0, !.second = 0,
              !.hour = IF d.hour >= 12 THEN 12 ELSE 0]

\* strftime("%Y-%m-%d")
StrftimeDate(d) ==
    Pad(d.year, 4) \o <<"-">> \o Pad(d.month, 2) \o <<"-">> \o Pad(d.day, 2)

\* strftime("%Y-%m-%dT%H%M%S")
StrftimeHalf(d) ==
    StrftimeDate(d) \o <<"T">> \o Pad(d.hour, 2) \o Pad(d.minute, 2)
        \o Pad(d.second, 2)

(***************************************************************************)
(* File names of the local archive cache.                                  *)
(***************************************************************************)
RADAR_DATA_PATH == <<"d", "a", "t", "a", "_", "r", "a", "d", "a", "r", "/">>

S_cirrus == <<"c", "i", "r", "r", "u", "s">>
S_odyssey == <<"o", "d", "y", "s", "s", "e", "y">>
S_nimbus == <<"n", "i", "m", "b", "u", "s">>
S_REFLECTIVITY == <<"R", "E", "F", "L", "E", "C", "T", "I", "V", "I", "T", "Y">>
S_RAINFALL == <<"R", "A", "I", "N", "F", "A", "L", "L", "_", "R", "A", "T", "E">>

AlgoNames == {S_cirrus, S_odyssey, S_nimbus}
ProductNames == {S_REFLECTIVITY, S_RAINFALL}

\* get_radar_composite, "Filename build": the path handed to get_api_data
ClientPath(d, algo, product) ==
    LET fn_hour == IF d.hour >= 12 THEN <<"1", "2">> ELSE <<"0", "0">>
        fn_dat_str == StrftimeDate(d) \o <<"T">> \o fn_hour
                          \o <<"0", "0", "0", "0">>
        filename == <<"O", "P", "E", "R", "A", "_">> \o algo \o <<"_">> \o product
                        \o <<"_">> \o fn_dat_str \o <<".", "t", "a", "r">>
    IN  RADAR_DATA_PATH \o filename

\* extract_radar_da: tzinfo defaulted to UTC
WithUtc(d) == IF d.tz = "naive" THEN [d EXCEPT !.tz = "utc"] ELSE d

\* extract_radar_da: the archive path opened for instant d
LookupPath(d) ==
    LET half_dat_str == StrftimeHalf(DatToDatHalf(WithUtc(d)))
        filename == <<"O", "P", "E", "R", "A", "_", "c", "i", "r", "r", "u", "s", "_", "R", "E", "F", "L", "E", "C", "T", "I", "V", "I", "T", "Y", "_">> \o half_dat_str \o <<".", "t", "a", "r">>
    IN  RADAR_DATA_PATH \o filename

(***************************************************************************)
(* Archive member names: "<prefix>_<YYYYMMDDHHMM>.hdf5".                   *)
(***************************************************************************)
IndexOf(s, c) ==
    IF \E i \in 1..Len(s) : s[i] = c
    THEN CHOOSE i \in 1..Len(s) : s[i] = c /\ \A j \in 1..(i - 1) : s[j] # c
    ELSE 0

RECURSIVE Split(_, _)
\* str.split(c)
Split(s, c) ==
    LET i == IndexOf(s, c)
    IN  IF i = 0 THEN <<s>>
        ELSE <<SubSeq(s, 1, i - 1)>> \o Split(SubSeq(s, i + 1, Len(s)), c)

\* str.endswith(suffix)
EndsWith(s, suffix) ==
    /\ Len(s) >= Len(suffix)
    /\ SubSeq(s, Len(s) - Len(suffix) + 1, Len(s)) = suffix

DOT_HDF5 == <<".", "h", "d", "f", "5">>

DaysInMonth(y, mo) ==
    IF mo \in {4, 6, 9, 11} THEN 30
    ELSE IF mo = 2
         THEN (IF y % 4 = 0 /\ (y % 100 # 0 \/ y % 400 = 0) THEN 29 ELSE 28)
         ELSE 31

\* datetime.strptime(t, "%Y%m%d%H%M").replace(tzinfo=timezone.utc), for the
\* twelve-digit form; anything else raises (ok = FALSE)
Strptime(t) ==
    IF Len(t) = 12 /\ AllDigits(t)
    THEN LET y  == Num(SubSeq(t, 1, 4))
             mo == Num(SubSeq(t, 5, 6))
             d  == Num(SubSeq(t, 7, 8))
             h  == Num(SubSeq(t, 9, 10))
             mi == Num(SubSeq(t, 11, 12))
         IN  IF /\ y >= 1
                /\ mo \in 1..12
                /\ d >= 1 /\ d <= DaysInMonth(y, mo)
                /\ h <= 23
                /\ mi <= 59
             THEN [ok |-> TRUE, ts |-> Instant(y, mo, d, h, mi, 0, "utc")]
             ELSE [ok |-> FALSE, ts |-> NoDate]
    ELSE [ok |-> FALSE, ts |-> NoDate]

\* the try block of the scans:
\*   ts_str = member.name.split("_")[1].split(".")[0]; ts = strptime(ts_str)
ParseMemberTs(name) ==
    LET parts == Split(name, "_")
    IN  IF Len(parts) < 2
        THEN [ok |-> FALSE, ts |-> NoDate]
        ELSE Strptime(Split(parts[2], ".")[1])

(***************************************************************************)
(* Cell values: floating point numbers with not-a-number.                  *)
(***************************************************************************)
Val(v) == [nan |-> FALSE, v |-> v]
NaN == [nan |-> TRUE, v |-> 0]

\* IEEE comparisons
Ne(a, b) == a.nan \/ b.nan \/ a.v # b.v
Lt(a, b) == ~a.nan /\ ~b.nan /\ a.v < b.v

NODATA == -9999000

GridRows == 2
GridCols == 1

Cells(h) == (1..h.ysize) \X (1..h.xsize)

(***************************************************************************)
(* odim_hdf5_to_dataset                                                    *)
(***************************************************************************)
\* data = data[::-1, :]
FlipRows(h) == [c \in Cells(h) |-> h.data[<<h.ysize + 1 - c[1], c[2]>>]]

\* mask = np.where(data != -9999000.0, 1, 0)
MaskOf(v) == IF Ne(v, Val(NODATA)) THEN 1 ELSE 0

\* reflectivity = np.where(data != -9999000.0, data, np.nan)
ReflOf(v) == IF Ne(v, Val(NODATA)) THEN v ELSE NaN

\* (mutation) a negative value is mirrored instead of floored
NoiseFloorAbs(r) == IF Lt(r, Val(0)) THEN Val(0 - r.v) ELSE r

\* reflectivity = np.where(reflectivity < 0, 0, reflectivity)
NoiseFloor(r) == IF Lt(r, Val(0)) THEN Val(0) ELSE r

OdimHdf5ToDataset(h, naz) ==
    LET flipped == FlipRows(h)
    IN  [ysize |-> h.ysize, xsize |-> h.xsize,
         reflectivity |->
             [c \in Cells(h) |->
                 IF naz THEN NoiseFloor(ReflOf(flipped[c]))
                 ELSE ReflOf(flipped[c])],
         mask |-> [c \in Cells(h) |-> MaskOf(flipped[c])]]

NoDataset == [ysize |-> 0, xsize |-> 0, reflectivity |-> <<>>, mask |-> <<>>]
NoHdf == [ysize |-> 0, xsize |-> 0, data |-> <<>>]
NoConeGrid == [ysize |-> 0, xsize |-> 0, lat |-> <<>>, lon |-> <<>>,
               reflectivity |-> <<>>]

(***************************************************************************)
(* The cell values radar_timestep_ds_to_geotiff writes                     *)
(***************************************************************************)
SetMin(S) == CHOOSE m \in S : \A x \in S : m <= x
SetMax(S) == CHOOSE m \in S : \A x \in S : x <= m
Abs(x) == IF x < 0 THEN 0 - x ELSE x

DEFAULT_MISSING_VALUE == -9999

\* the integers from 2^24 on stand for the doubles that single precision
\* cannot hold: between 2^24 and 2^25 only the even ones are float32 values
TwoPow24 == 16777216

\* dtype='float32': round to nearest, ties to even
Float32(v) ==
    IF v.nan \/ Abs(v.v) <= TwoPow24 \/ v.v % 2 = 0 THEN v
    ELSE IF (v.v + 1) % 4 = 0 THEN Val(v.v + 1) ELSE Val(v.v - 1)

\* .fillna(0)
Fillna(v) == IF v.nan THEN Val(0) ELSE v

\* (mutation) only the cells without a reflectivity take the sentinel
WhereMaskedAndBlank(m, mv, v) == IF m = 0 /\ v = Val(0) THEN Val(mv) ELSE v

\* xr.where(ds_copy['mask'] == 0, missing_value, refl)
WhereMasked(m, mv, v) == IF m = 0 THEN Val(mv) ELSE v

\* the file written for a grid when no bbox is given
GeotiffRaster(d, mv) ==
    [c \in Cells(d) |-> Float32(WhereMasked(d.mask[c], mv, Fillna(d.reflectivity[c])))]

(***************************************************************************)
(* Archives: the members enumerated by the model.                          *)
(***************************************************************************)
GridA == [ysize |-> GridRows, xsize |-> GridCols,
          data |-> [c \in (1..GridRows) \X (1..GridCols) |->
                       IF c[1] = 1 THEN Val(NODATA) ELSE Val(7)]]

GridB == [ysize |-> GridRows, xsize |-> GridCols,
          data |-> [c \in (1..GridRows) \X (1..GridCols) |->
                       IF c[1] = 1 THEN Val(-5) ELSE NaN]]

PREFIX == <<"C", "I", "R", "R", "U", "S", ".", "R", "E", "F">>

RadarName(tsdigits) == PREFIX \o <<"_">> \o tsdigits \o DOT_HDF5

Member(name, isfile, content) ==
    [name |-> name, isfile |-> isfile, data |-> content]

T1200 == <<"2", "0", "2", "5", "0", "6", "1", "7", "1", "2", "0", "0">>
T1205 == <<"2", "0", "2", "5", "0", "6", "1", "7", "1", "2", "0", "5">>
T1230 == <<"2", "0", "2", "5", "0", "6", "1", "7", "1", "2", "3", "0">>
T1100next == <<"2", "0", "2", "5", "0", "6", "1", "8", "1", "1", "0", "0">>

Members ==
    { Member(RadarName(T1200), TRUE, GridA),
      Member(RadarName(T1200), TRUE, GridB),
      \* a directory entry: tar.extractfile gives None
      Member(RadarName(T1200), FALSE, NoHdf),
      Member(RadarName(T1205), TRUE, GridA),
      Member(RadarName(T1230), TRUE, GridA),
      Member(RadarName(T1100next), TRUE, GridB),
      \* malformed names
      Member(RadarName(<<"2", "0", "2", "5", "0", "6", "1", "7", "1", "2", "x", "x">>), TRUE, GridA),
      Member(RadarName(<<"2", "0", "2", "5", "0", "6", "1", "7", "2", "4", "0", "0">>), TRUE, GridA),
      Member(<<"C", "I", "R", "R", "U", "S", ".", "R", "E", "F", ".", "h", "d", "f", "5">>, TRUE, GridA),
      \* not a radar file
      Member(RadarName(T1200) \o <<".", "m", "d", "5">>, TRUE, NoHdf) }

RECURSIVE SeqsUpTo(_, _)
SeqsUpTo(S, n) ==
    IF n = 0 THEN {<<>>}
    ELSE LET shorter == SeqsUpTo(S, n - 1)
         IN  shorter \cup {Append(q, x) : q \in shorter, x \in S}

Archives == SeqsUpTo(Members, MaxMembers)

Timesteps == {5, 60, 120}

(***************************************************************************)
(* One iteration of the member loops.                                      *)
(***************************************************************************)
\* (mutation) the timestamp is rounded down to a multiple before the test
PassesTimestepRounded(ts, T) ==
    LET ts_minutes == ts.hour * 60 + ts.minute
    IN  (ts_minutes - (ts_minutes % T)) % T = 0

\* if ts_minutes % timestep != 0: continue
PassesTimestep(ts, T) ==
    LET ts_minutes == ts.hour * 60 + ts.minute
    IN  ts_minutes % T = 0

\* (mutation) the `if f is None: continue` is missing
ScanFateNoExtractCheck(m, T) ==
    IF ~EndsWith(m.name, DOT_HDF5) THEN "not_hdf5"
    ELSE IF ~ParseMemberTs(m.name).ok THEN "unparseable"
    ELSE IF ~PassesTimestep(ParseMemberTs(m.name).ts, T) THEN "filtered"
    ELSE "decoded"

\* what radar_tar_to_dataset / radar_tar_to_geotiff do with one member
ScanFate(m, T) ==
    IF ~EndsWith(m.name, DOT_HDF5) THEN "not_hdf5"
    ELSE IF ~ParseMemberTs(m.name).ok THEN "unparseable"
    ELSE IF ~PassesTimestep(ParseMemberTs(m.name).ts, T) THEN "filtered"
    ELSE IF ~m.isfile THEN "not_extractable"
    ELSE "decoded"

\* ds = odim_hdf5_to_dataset(hdf); ds = ds.expand_dims(time=[np.datetime64(ts)])
Tagged(m) ==
    [time |-> ParseMemberTs(m.name).ts, ds |-> OdimHdf5ToDataset(m.data, TRUE)]

\* (mutation) a naive target is compared as it is
LookupFateNoTz(m, d) ==
    IF ~EndsWith(m.name, DOT_HDF5) THEN "not_hdf5"
    ELSE IF ~ParseMemberTs(m.name).ok THEN "unparseable"
    ELSE IF ParseMemberTs(m.name).ts # d THEN "other_time"
    ELSE IF ~m.isfile THEN "not_extractable"
    ELSE "decoded"

\* what extract_radar_da does with one member
LookupFate(m, d) ==
    IF ~EndsWith(m.name, DOT_HDF5) THEN "not_hdf5"
    ELSE IF ~ParseMemberTs(m.name).ok THEN "unparseable"
    ELSE IF ParseMemberTs(m.name).ts # WithUtc(d) THEN "other_time"
    ELSE IF ~m.isfile THEN "not_extractable"
    ELSE "decoded"

(***************************************************************************)
(* xr.concat(datasets, dim="time").sortby("time"): a stable sort by time.  *)
(***************************************************************************)
RECURSIVE InsertByTime(_, _)
InsertByTime(sorted, g) ==
    IF sorted = <<>> THEN <<g>>
    ELSE IF TsLess(g.time, Head(sorted).time)
         THEN <<g>> \o sorted
         ELSE <<Head(sorted)>> \o InsertByTime(Tail(sorted), g)

RECURSIVE SortRec(_)
SortRec(gs) ==
    IF gs = <<>> THEN <<>>
    ELSE InsertByTime(SortRec(SubSeq(gs, 1, Len(gs) - 1)), gs[Len(gs)])

\* (mutation) the sortby is missing
ConcatUnsorted(gs) == gs

ConcatSortByTime(gs) == SortRec(gs)

(***************************************************************************)
(* Initial state: nothing has been called.                                 *)
(***************************************************************************)
Init ==
    /\ pc = "idle" /\ caller = "none" /\ input_date = NoDate
    /\ output_path = <<>> /\ max_retries = 0 /\ stop_on_maxretry = FALSE
    /\ attempt = 0 /\ log = <<>> /\ sleeps = 0 /\ writes = 0
    /\ file0 = "absent" /\ file = "absent" /\ result = "pending" /\ exc = "none"
    /\ algo_name = <<>> /\ product_name = <<>>
    /\ op = "idle" /\ dpc = "idle" /\ archive = <<>> /\ timestep = 0
    /\ dat = NoDate /\ tar_path = <<>> /\ exists = FALSE /\ idx = 0
    /\ trace = <<>> /\ datasets = <<>> /\ tifs = <<>> /\ tar_empty = TRUE
    /\ dresult = "pending" /\ series = <<>> /\ grid = NoDataset
    /\ gpc = "idle" /\ hdf = NoHdf /\ noise_as_zero = FALSE
    /\ data = <<>> /\ mask = <<>> /\ reflectivity = <<>> /\ ds = NoDataset
    /\ rpc = "idle" /\ tif_ds = NoDataset /\ ds_copy = NoDataset
    /\ missing_value = 0 /\ refl = <<>> /\ bbox = "None" /\ raster = <<>>
    /\ cpc = "idle" /\ cone_ds = NoConeGrid /\ lat0 = 0 /\ lon0 = 0
    /\ heading = 0 /\ O = 0 /\ R = 0 /\ mask_bbox = <<>>
    /\ ds_sub = NoConeGrid /\ geod = <<>> /\ angle_diff = <<>>
    /\ cone_refl = <<>> /\ cexc = "none"
    /\ hpc = "idle" /\ df = <<>> /\ az0 = <<>> /\ az = <<>> /\ headings = <<>>
    /\ hexc = "none"

Idle ==
    /\ pc = "idle" /\ op = "idle" /\ gpc = "idle"
    /\ rpc = "idle" /\ cpc = "idle" /\ hpc = "idle"

(***************************************************************************)
(* get_api_data                                                            *)
(***************************************************************************)
DEFAULT_MAX_RETRIES == 5

FileStates == {"absent", "old"}

DirectPath == <<"o", "u", "t", ".", "t", "a", "r">>

\* where control goes when get_api_data is left
AfterDownload(raised) ==
    IF caller = "get_radar_composite" /\ ~raised THEN "downloaded" ELSE "done"

\* get_api_data(api_url, output_path, max_retries, stop_on_maxretry)
CallGetApiData ==
    /\ Idle
    /\ \E mr \in 0..MaxRetries, stop \in BOOLEAN, f0 \in FileStates :
          /\ max_retries' = mr
          /\ stop_on_maxretry' = stop
          /\ file0' = f0
          /\ file' = f0
    /\ pc' = "loop"
    /\ caller' = "get_api_data"
    /\ output_path' = DirectPath
    /\ attempt' = 1
    /\ UNCHANGED <<input_date, log, sleeps, writes, result, exc, algo_name,
                   product_name, decvars, gridvars, diagvars>>

\* (mutation) the `return output_path` is missing: the loop goes on
AttemptOkNoReturn ==
    /\ pc = "loop" /\ attempt <= max_retries
    /\ log' = Append(log, "ok")
    /\ writes' = writes + 1
    /\ file' = "body"
    /\ result' = "path"
    /\ attempt' = attempt + 1
    /\ UNCHANGED <<pc, caller, input_date, output_path, max_retries,
                   stop_on_maxretry, sleeps, file0, exc, algo_name,
                   product_name, decvars, gridvars, diagvars>>

\* (mutation) the path is returned without the body being written
AttemptOkNoWrite ==
    /\ pc = "loop" /\ attempt <= max_retries
    /\ log' = Append(log, "ok")
    /\ result' = "path"
    /\ pc' = AfterDownload(FALSE)
    /\ UNCHANGED <<caller, input_date, output_path, max_retries,
                   stop_on_maxretry, attempt, sleeps, writes, file0, file, exc,
                   algo_name, product_name, decvars, gridvars, diagvars>>

\* the try block succeeds: write_bytes, return output_path
AttemptOk ==
    /\ pc = "loop" /\ attempt <= max_retries
    /\ log' = Append(log, "ok")
    /\ writes' = writes + 1
    /\ file' = "body"
    /\ result' = "path"
    /\ pc' = AfterDownload(FALSE)
    /\ UNCHANGED <<caller, input_date, output_path, max_retries,
                   stop_on_maxretry, attempt, sleeps, file0, exc, algo_name,
                   product_name, decvars, gridvars, diagvars>>

\* the GET succeeds and write_bytes raises: OSError is not a RequestException
AttemptWriteError ==
    /\ pc = "loop" /\ attempt <= max_retries
    /\ log' = Append(log, "write_error")
    /\ writes' = writes + 1
    /\ file' \in {file, "partial"}
    /\ exc' = "OSError"
    /\ pc' = AfterDownload(TRUE)
    /\ UNCHANGED <<caller, input_date, output_path, max_retries,
                   stop_on_maxretry, attempt, sleeps, result, file0, algo_name,
                   product_name, decvars, gridvars, diagvars>>

\* the except branch on the last attempt
RaisesOnLast == attempt = max_retries /\ stop_on_maxretry

\* (mutation) the wait follows every failed attempt
SleepsAlways == TRUE

\* if attempt < max_retries: time.sleep(5)
SleepsAfter == attempt < max_retries

\* requests.get or raise_for_status raises a RequestException
AttemptHttpError ==
    /\ pc = "loop" /\ attempt <= max_retries
    /\ log' = Append(log, "http_error")
    /\ IF RaisesOnLast
       THEN /\ exc' = "RuntimeError"
            /\ pc' = AfterDownload(TRUE)
            /\ UNCHANGED <<attempt, sleeps>>
       ELSE /\ sleeps' = IF SleepsAfter THEN sleeps + 1 ELSE sleeps
            /\ attempt' = attempt + 1
            /\ UNCHANGED <<pc, exc>>
    /\ UNCHANGED <<caller, input_date, output_path, max_retries,
                   stop_on_maxretry, writes, file0, file, result, algo_name,
                   product_name, decvars, gridvars, diagvars>>

\* the for loop is exhausted: the function ends without a return statement
LoopExhausted ==
    /\ pc = "loop" /\ attempt > max_retries
    /\ result' = "None"
    /\ pc' = AfterDownload(FALSE)
    /\ UNCHANGED <<caller, input_date, output_path, max_retries,
                   stop_on_maxretry, attempt, log, sleeps, writes, file0, file,
                   exc, algo_name, product_name, decvars, gridvars, diagvars>>

(***************************************************************************)
(* Whole-archive scan of radar_tar_to_dataset, as one function.            *)
(***************************************************************************)
RECURSIVE ScanDatasets(_, _)
ScanDatasets(a, T) ==
    IF a = <<>> THEN <<>>
    ELSE LET before == ScanDatasets(SubSeq(a, 1, Len(a) - 1), T)
             m == a[Len(a)]
         IN  IF ScanFate(m, T) = "decoded" THEN Append(before, Tagged(m))
             ELSE before

DEFAULT_TIMESTEP == 60

(***************************************************************************)
(* OpenDataServer.get_radar_composite                                      *)
(***************************************************************************)
Times == { <<0, 0, 0>>, <<11, 0, 0>>, <<11, 59, 59>>, <<12, 0, 0>>,
           <<12, 0, 30>>, <<12, 5, 0>>, <<23, 59, 0>> }

\* input_date of get_radar_composite
ClientDates ==
    { Instant(2025, 6, d, t[1], t[2], t[3], "naive") : d \in {17, 18}, t \in Times }

\* dat of extract_radar_da, with and without tzinfo
LookupDates ==
    { Instant(2025, 6, 17, t[1], t[2], t[3], tz) :
        t \in Times, tz \in {"naive", "utc"} }
    \cup { Instant(2025, 6, 18, 11, 0, 0, "utc") }

\* the archives the server may answer with
ServerArchives == SeqsUpTo(Members, 1)

GetRadarComposite ==
    /\ Idle
    /\ \E d \in ClientDates, algo \in AlgoNames, product \in ProductNames,
          f0 \in FileStates :
          /\ input_date' = d
          /\ algo_name' = algo
          /\ product_name' = product
          /\ output_path' = ClientPath(d, algo, product)
          /\ file0' = f0
          /\ file' = f0
    /\ pc' = "loop"
    /\ caller' = "get_radar_composite"
    /\ max_retries' = DEFAULT_MAX_RETRIES
    /\ stop_on_maxretry' = FALSE
    /\ attempt' = 1
    /\ UNCHANGED <<log, sleeps, writes, result, exc, decvars, gridvars, diagvars>>

\* radar_ds = radar_tar_to_dataset(data_path) with data_path = None:
\* tarfile.open(None) raises ValueError("nothing to open")
CompositeDecodeNone ==
    /\ pc = "downloaded" /\ result = "None"
    /\ exc' = "ValueError: nothing to open"
    /\ pc' = "done"
    /\ UNCHANGED <<caller, input_date, output_path, max_retries,
                   stop_on_maxretry, attempt, log, sleeps, writes, file0, file,
                   result, algo_name, product_name, decvars, gridvars, diagvars>>

\* radar_ds = radar_tar_to_dataset(data_path) on the downloaded archive
CompositeDecodeArchive ==
    /\ pc = "downloaded" /\ result = "path"
    /\ \E a \in ServerArchives :
          LET found == ScanDatasets(a, DEFAULT_TIMESTEP)
          IN  IF found = <<>>
              THEN /\ exc' = "ValueError"
                   /\ UNCHANGED <<result, series>>
              ELSE /\ result' = "dataset"
                   /\ series' = ConcatSortByTime(found)
                   /\ exc' = "none"
    /\ pc' = "done"
    /\ UNCHANGED <<caller, input_date, output_path, max_retries,
                   stop_on_maxretry, attempt, log, sleeps, writes, file0, file,
                   algo_name, product_name, op, dpc, archive, timestep, dat,
                   tar_path, exists, idx, trace, datasets, tifs, tar_empty,
                   dresult, grid, gridvars, diagvars>>

(***************************************************************************)
(* extract_radar_da                                                        *)
(***************************************************************************)
\* entry: the path is built; tar_path.exists() is ex; when it exists the
\* archive holds the members a
ExtractRadarDa ==
    /\ Idle
    /\ op' = "lookup"
    /\ \E d \in LookupDates :
          /\ dat' = d
          /\ tar_path' = LookupPath(d)
    /\ \E ex \in BOOLEAN :
          /\ exists' = ex
          /\ IF ex
             THEN /\ \E a \in Archives : archive' = a
                  /\ idx' = 1
                  /\ dpc' = "scan"
                  /\ UNCHANGED dresult
             ELSE /\ archive' = <<>>
                  /\ dresult' = "None"
                  /\ dpc' = "done"
                  /\ UNCHANGED idx
    /\ UNCHANGED <<timestep, trace, datasets, tifs, tar_empty, series, grid,
                   dlvars, gridvars, diagvars>>

LookupScanning == op = "lookup" /\ dpc = "scan" /\ idx <= Len(archive)

\* the three `continue` statements
LookupSkip ==
    /\ LookupScanning
    /\ LookupFate(archive[idx], dat) \in {"not_hdf5", "unparseable", "other_time"}
    /\ trace' = Append(trace, LookupFate(archive[idx], dat))
    /\ idx' = idx + 1
    /\ UNCHANGED <<op, dpc, archive, timestep, dat, tar_path, exists, datasets,
                   tifs, tar_empty, dresult, series, grid, dlvars, gridvars, diagvars>>

\* f is None: return None
LookupNotExtractable ==
    /\ LookupScanning
    /\ LookupFate(archive[idx], dat) = "not_extractable"
    /\ trace' = Append(trace, "not_extractable")
    /\ dresult' = "None"
    /\ dpc' = "done"
    /\ UNCHANGED <<op, archive, timestep, dat, tar_path, exists, idx, datasets,
                   tifs, tar_empty, series, grid, dlvars, gridvars, diagvars>>

\* da = odim_hdf5_to_dataset(hdf); return da
LookupReturn ==
    /\ LookupScanning
    /\ LookupFate(archive[idx], dat) = "decoded"
    /\ trace' = Append(trace, "decoded")
    /\ grid' = OdimHdf5ToDataset(archive[idx].data, TRUE)
    /\ dresult' = "grid"
    /\ dpc' = "done"
    /\ UNCHANGED <<op, archive, timestep, dat, tar_path, exists, idx, datasets,
                   tifs, tar_empty, series, dlvars, gridvars, diagvars>>

\* the loop ends without a match: return None
LookupExhausted ==
    /\ op = "lookup" /\ dpc = "scan" /\ idx > Len(archive)
    /\ dresult' = "None"
    /\ dpc' = "done"
    /\ UNCHANGED <<op, archive, timestep, dat, tar_path, exists, idx, trace,
                   datasets, tifs, tar_empty, series, grid, dlvars, gridvars, diagvars>>

(***************************************************************************)
(* radar_tar_to_dataset and radar_tar_to_geotiff                           *)
(***************************************************************************)
RadarTarToDataset ==
    /\ Idle
    /\ op' = "dataset"
    /\ \E a \in Archives : archive' = a
    /\ \E T \in Timesteps : timestep' = T
    /\ idx' = 1
    /\ dpc' = "scan"
    /\ UNCHANGED <<dat, tar_path, exists, trace, datasets, tifs, tar_empty,
                   dresult, series, grid, dlvars, gridvars, diagvars>>

RadarTarToGeotiff ==
    /\ Idle
    /\ op' = "geotiff"
    /\ \E a \in Archives : archive' = a
    /\ \E T \in Timesteps : timestep' = T
    /\ idx' = 1
    /\ tar_empty' = TRUE
    /\ dpc' = "scan"
    /\ UNCHANGED <<dat, tar_path, exists, trace, datasets, tifs, dresult,
                   series, grid, dlvars, gridvars, diagvars>>

Scanning == op \in {"dataset", "geotiff"} /\ dpc = "scan" /\ idx <= Len(archive)

\* the `continue` statements of both scans
ScanSkip ==
    /\ Scanning
    /\ ScanFate(archive[idx], timestep) # "decoded"
    /\ trace' = Append(trace, ScanFate(archive[idx], timestep))
    /\ idx' = idx + 1
    /\ UNCHANGED <<op, dpc, archive, timestep, dat, tar_path, exists, datasets,
                   tifs, tar_empty, dresult, series, grid, dlvars, gridvars, diagvars>>

\* datasets.append(ds)
DatasetAppend ==
    /\ Scanning /\ op = "dataset"
    /\ ScanFate(archive[idx], timestep) = "decoded"
    /\ trace' = Append(trace, "decoded")
    /\ datasets' = Append(datasets, Tagged(archive[idx]))
    /\ idx' = idx + 1
    /\ UNCHANGED <<op, dpc, archive, timestep, dat, tar_path, exists, tifs,
                   tar_empty, dresult, series, grid, dlvars, gridvars, diagvars>>

RECURSIVE Join(_, _)
\* sep.join(parts)
Join(parts, sep) ==
    IF parts = <<>> THEN <<>>
    ELSE IF Len(parts) = 1 THEN parts[1]
    ELSE parts[1] \o sep \o Join(Tail(parts), sep)

\* geotiff_fn = "_".join(member.name.split(".")[:-1]) + ".tif"
GeotiffName(name) ==
    LET parts == Split(name, ".")
    IN  Join(SubSeq(parts, 1, Len(parts) - 1), <<"_">>) \o <<".", "t", "i", "f">>

\* radar_timestep_ds_to_geotiff(ds, out_path); tar_empty = False
GeotiffWrite ==
    /\ Scanning /\ op = "geotiff"
    /\ ScanFate(archive[idx], timestep) = "decoded"
    /\ trace' = Append(trace, "decoded")
    /\ LET decoded == OdimHdf5ToDataset(archive[idx].data, TRUE)
       IN  tifs' = Append(tifs, [name |-> GeotiffName(archive[idx].name),
                                 ds |-> decoded,
                                 raster |-> GeotiffRaster(decoded, DEFAULT_MISSING_VALUE)])
    /\ tar_empty' = FALSE
    /\ idx' = idx + 1
    /\ UNCHANGED <<op, dpc, archive, timestep, dat, tar_path, exists, datasets,
                   dresult, series, grid, dlvars, gridvars, diagvars>>

\* (mutation) the emptiness test is missing
NothingFoundNever(found) == FALSE

\* if not datasets: raise ValueError
NothingFound(found) == found = <<>>

\* after the loop of radar_tar_to_dataset
FinishDataset ==
    /\ op = "dataset" /\ dpc = "scan" /\ idx > Len(archive)
    /\ IF NothingFound(datasets)
       THEN /\ dresult' = "ValueError"
            /\ UNCHANGED series
       ELSE /\ dresult' = "series"
            /\ series' = ConcatSortByTime(datasets)
    /\ dpc' = "done"
    /\ UNCHANGED <<op, archive, timestep, dat, tar_path, exists, idx, trace,
                   datasets, tifs, tar_empty, grid, dlvars, gridvars, diagvars>>

\* after the loop of radar_tar_to_geotiff: if tar_empty: raise ValueError
FinishGeotiff ==
    /\ op = "geotiff" /\ dpc = "scan" /\ idx > Len(archive)
    /\ dresult' = IF tar_empty THEN "ValueError" ELSE "ok"
    /\ dpc' = "done"
    /\ UNCHANGED <<op, archive, timestep, dat, tar_path, exists, idx, trace,
                   datasets, tifs, tar_empty, series, grid, dlvars, gridvars, diagvars>>

(***************************************************************************)
(* odim_hdf5_to_dataset, statement by statement                            *)
(***************************************************************************)
RawValues == {Val(NODATA), Val(NODATA - 1), Val(-5), Val(7), NaN}

HdfFiles ==
    { [ysize |-> GridRows, xsize |-> GridCols, data |-> f] :
        f \in [(1..GridRows) \X (1..GridCols) -> RawValues] }

\* data = hdf5_file[...][:]; data = data[::-1, :]
OdimRead ==
    /\ Idle
    /\ gpc' = "read"
    /\ \E h \in HdfFiles :
          /\ hdf' = h
          /\ data' = FlipRows(h)
    /\ \E naz \in BOOLEAN : noise_as_zero' = naz
    /\ UNCHANGED <<mask, reflectivity, ds, dlvars, decvars, diagvars>>

\* mask = np.where(...); reflectivity = np.where(...)
OdimMask ==
    /\ gpc = "read"
    /\ mask' = [c \in Cells(hdf) |-> MaskOf(data[c])]
    /\ reflectivity' = [c \in Cells(hdf) |-> ReflOf(data[c])]
    /\ gpc' = "masked"
    /\ UNCHANGED <<hdf, noise_as_zero, data, ds, dlvars, decvars, diagvars>>

\* if noise_as_zero: reflectivity = np.where(reflectivity < 0, 0, reflectivity)
OdimNoise ==
    /\ gpc = "masked"
    /\ reflectivity' = IF noise_as_zero
                       THEN [c \in Cells(hdf) |-> NoiseFloor(reflectivity[c])]
                       ELSE reflectivity
    /\ gpc' = "floored"
    /\ UNCHANGED <<hdf, noise_as_zero, data, mask, ds, dlvars, decvars, diagvars>>

\* ds = xr.Dataset({var_name: reflectivity, "mask": mask}, ...); return ds
OdimReturn ==
    /\ gpc = "floored"
    /\ ds' = [ysize |-> hdf.ysize, xsize |-> hdf.xsize,
              reflectivity |-> reflectivity, mask |-> mask]
    /\ gpc' = "decoded"
    /\ UNCHANGED <<hdf, noise_as_zero, data, mask, reflectivity, dlvars, decvars, diagvars>>

(***************************************************************************)
(* radar_timestep_ds_to_geotiff                                            *)
(***************************************************************************)
ReflValues == {Val(7), NaN, Val(TwoPow24 + 1)}

RasterDatasets ==
    { [ysize |-> GridRows, xsize |-> GridCols, reflectivity |-> r, mask |-> m] :
        r \in [(1..GridRows) \X (1..GridCols) -> ReflValues],
        m \in [(1..GridRows) \X (1..GridCols) -> {0, 1}] }

MissingValues == {DEFAULT_MISSING_VALUE, TwoPow24 + 3}

\* what refl.rio.clip_box keeps: every cell, the first row, or no cell at all
ClipBoxes == {"None", "first_row", "outside"}
Clipped(d, b) ==
    IF b = "None" THEN Cells(d)
    ELSE IF b = "first_row" THEN {c \in Cells(d) : c[1] = 1}
    ELSE {}

\* radar_timestep_ds_to_geotiff(ds, output_path, missing_value, bbox), up to
\* ds_copy = ds.copy(); ds_copy = ds_copy.assign_coords(...)
RadarTimestepDsToGeotiff ==
    /\ Idle
    /\ \E d \in RasterDatasets :
          /\ tif_ds' = d
          /\ ds_copy' = d
    /\ \E mv \in MissingValues : missing_value' = mv
    /\ \E b \in ClipBoxes : bbox' = b
    /\ rpc' = "copied"
    /\ UNCHANGED <<refl, raster, dlvars, decvars, gridvars, conevars, headvars>>

\* refl = ds_copy['reflectivity'].fillna(0)
GeotiffFillna ==
    /\ rpc = "copied"
    /\ refl' = [c \in Cells(ds_copy) |-> Fillna(ds_copy.reflectivity[c])]
    /\ rpc' = "filled"
    /\ UNCHANGED <<tif_ds, ds_copy, missing_value, bbox, raster, dlvars,
                   decvars, gridvars, conevars, headvars>>

\* refl = xr.where(ds_copy['mask'] == 0, missing_value, refl)
GeotiffWhere ==
    /\ rpc = "filled"
    /\ refl' = [c \in Cells(ds_copy) |->
                   WhereMasked(ds_copy.mask[c], missing_value, refl[c])]
    /\ rpc' = "masked"
    /\ UNCHANGED <<tif_ds, ds_copy, missing_value, bbox, raster, dlvars,
                   decvars, gridvars, conevars, headvars>>

\* refl = refl.rio.clip_box(...) finds no cell in the box and raises
GeotiffClipEmpty ==
    /\ rpc = "masked"
    /\ Clipped(ds_copy, bbox) = {}
    /\ rpc' = "NoDataInBounds"
    /\ UNCHANGED <<tif_ds, ds_copy, missing_value, refl, bbox, raster, dlvars,
                   decvars, gridvars, conevars, headvars>>

\* refl.rio.to_raster(output_path, dtype='float32')
GeotiffToRaster ==
    /\ rpc = "masked"
    /\ Clipped(ds_copy, bbox) # {}
    /\ raster' = [c \in Clipped(ds_copy, bbox) |-> Float32(refl[c])]
    /\ rpc' = "written"
    /\ UNCHANGED <<tif_ds, ds_copy, missing_value, refl, bbox, dlvars, decvars,
                   gridvars, conevars, headvars>>

(***************************************************************************)
(* extract_reflectivity_cone                                               *)
(*                                                                         *)
(* Angles are whole degrees, distances whole metres, R whole kilometres.   *)
(* Latitudes and longitudes are counted in units of 1/111 degree, so that  *)
(* dlat = R / 111.0 degrees is R units.                                    *)
(***************************************************************************)
\* the latitudes of the apex, in units: 0 degrees and 60 degrees
ApexLats == {0, 6660}

\* 1 / np.cos(np.deg2rad(lat0)) at the latitudes of ApexLats
InvCos(phi) == IF phi = 6660 THEN 2 ELSE 1

\* dlat = R / 111.0
Dlat(r) == r
\* dlon = R / (111.0 * np.cos(np.deg2rad(lat0)))
Dlon(r, phi) == r * InvCos(phi)

\* a regular grid around latitude phi: rows run north to south
RegularGrid(phi) ==
    [ysize |-> 2, xsize |-> 3,
     lat |-> [c \in (1..2) \X (1..3) |-> phi + 2 - c[1]],
     lon |-> [c \in (1..2) \X (1..3) |-> 2 * c[2] - 4],
     reflectivity |-> [c \in (1..2) \X (1..3) |->
                          IF c = <<1, 2>> THEN NaN ELSE Val(10 * c[1] + c[2])]]

\* a curvilinear grid: the longitudes of a row depend on the row
SkewedGrid(phi) ==
    [ysize |-> 2, xsize |-> 3,
     lat |-> [c \in (1..2) \X (1..3) |-> phi + 3 - 2 * c[1]],
     lon |-> [c \in (1..2) \X (1..3) |-> 4 * c[2] - 4 * c[1]],
     reflectivity |-> [c \in (1..2) \X (1..3) |-> Val(10 * c[1] + c[2])]]

ConeGrids(phi) == {RegularGrid(phi), SkewedGrid(phi)}

ApexLons == {-2, 0, 9}
Radii == {-1, 0, 1, 2}
Headings == {0, 90, 310}
Openings == {0, 120, 121}

\* mask_bbox = (lat >= lat_min) & (lat <= lat_max) & (lon >= lon_min) & (lon <= lon_max)
MaskBbox(g, phi, lam, r) ==
    [c \in Cells(g) |->
        /\ g.lat[c] >= phi - Dlat(r) /\ g.lat[c] <= phi + Dlat(r)
        /\ g.lon[c] >= lam - Dlon(r, phi) /\ g.lon[c] <= lam + Dlon(r, phi)]

\* iy, ix = np.where(mask_bbox)
Iy(m) == {c[1] : c \in {d \in DOMAIN m : m[d]}}
Ix(m) == {c[2] : c \in {d \in DOMAIN m : m[d]}}

\* (mutation) the slices stop one index early
IselNoPlusOne(g, y_min, y_max, x_min, x_max) ==
    LET ny == y_max - y_min
        nx == x_max - x_min
        src(c) == <<y_min + c[1] - 1, x_min + c[2] - 1>>
    IN  [ysize |-> ny, xsize |-> nx,
         lat |-> [c \in (1..ny) \X (1..nx) |-> g.lat[src(c)]],
         lon |-> [c \in (1..ny) \X (1..nx) |-> g.lon[src(c)]],
         reflectivity |-> [c \in (1..ny) \X (1..nx) |-> g.reflectivity[src(c)]]]

\* ds.isel({y: slice(y_min, y_max+1), x: slice(x_min, x_max+1)})
Isel(g, y_min, y_max, x_min, x_max) ==
    LET ny == y_max - y_min + 1
        nx == x_max - x_min + 1
        src(c) == <<y_min + c[1] - 1, x_min + c[2] - 1>>
    IN  [ysize |-> ny, xsize |-> nx,
         lat |-> [c \in (1..ny) \X (1..nx) |-> g.lat[src(c)]],
         lon |-> [c \in (1..ny) \X (1..nx) |-> g.lon[src(c)]],
         reflectivity |-> [c \in (1..ny) \X (1..nx) |-> g.reflectivity[src(c)]]]

\* extract_reflectivity_cone(ds, lat0, lon0, heading, O, R), up to mask_bbox
ExtractReflectivityCone ==
    /\ Idle
    /\ \E phi \in ApexLats, lam \in ApexLons, r \in Radii :
         \E g \in ConeGrids(phi) :
            /\ cone_ds' = g
            /\ lat0' = phi /\ lon0' = lam /\ R' = r
            /\ mask_bbox' = MaskBbox(g, phi, lam, r)
    /\ \E h \in Headings : heading' = h
    /\ \E o \in Openings : O' = o
    /\ cpc' = "bbox"
    /\ UNCHANGED <<ds_sub, geod, angle_diff, cone_refl, cexc, dlvars, decvars,
                   gridvars, rastervars, headvars>>

\* if len(iy) == 0: raise ValueError
ConeBboxEmpty ==
    /\ cpc = "bbox"
    /\ Iy(mask_bbox) = {}
    /\ cexc' = "ValueError"
    /\ cpc' = "done"
    /\ UNCHANGED <<cone_ds, lat0, lon0, heading, O, R, mask_bbox, ds_sub, geod,
                   angle_diff, cone_refl, dlvars, decvars, gridvars,
                   rastervars, headvars>>

\* y_min, y_max = iy.min(), iy.max(); x_min, x_max = ...; ds_sub = ds.isel(...)
ConeCrop ==
    /\ cpc = "bbox"
    /\ Iy(mask_bbox) # {}
    /\ ds_sub' = Isel(cone_ds, SetMin(Iy(mask_bbox)), SetMax(Iy(mask_bbox)),
                      SetMin(Ix(mask_bbox)), SetMax(Ix(mask_bbox)))
    /\ cpc' = "cropped"
    /\ UNCHANGED <<cone_ds, lat0, lon0, heading, O, R, mask_bbox, geod,
                   angle_diff, cone_refl, cexc, dlvars, decvars, gridvars,
                   rastervars, headvars>>

\* the forward azimuths geod.inv returns lie in [-180, 180]
AzValues == {-180, -61, -60, 10, 60, 61, 180}
DistValues == {0, 1000, 1001, 2000, 2001}
GeodOutcomes == [az : AzValues, dist : DistValues]

\* geod.inv(lon0, lat0, lons, lats) over the cells of a grid: one cell takes
\* any of the outcomes, the others lie on the meridian of the apex to its north
GeodFields(g) ==
    { [c \in Cells(g) |-> IF c = c0 THEN o ELSE [az |-> 0, dist |-> 500]] :
        c0 \in Cells(g), o \in GeodOutcomes }

\* angle_diff = (az - heading + 180) % 360 - 180
AngleDiff(a, h) == ((a - h + 180) % 360) - 180

\* (mutation) both bounds are exclusive
InConeStrict(dev, dist, o, r) == 2 * Abs(dev) < o /\ dist < r * 1000

\* mask = (np.abs(angle_diff) <= O/2) & (dist <= R_m), with R_m = R * 1000
InCone(dev, dist, o, r) == 2 * Abs(dev) <= o /\ dist <= r * 1000

\* az, _, dist = geod.inv(...); angle_diff = (az - heading + 180) % 360 - 180
ConeGeod ==
    /\ cpc = "cropped"
    /\ \E f \in GeodFields(ds_sub) :
          /\ geod' = f
          /\ angle_diff' = [c \in Cells(ds_sub) |-> AngleDiff(f[c].az, heading)]
    /\ cpc' = "geod"
    /\ UNCHANGED <<cone_ds, lat0, lon0, heading, O, R, mask_bbox, ds_sub,
                   cone_refl, cexc, dlvars, decvars, gridvars, rastervars,
                   headvars>>

\* cone_refl = refl.where(mask); return cone_refl
ConeMask ==
    /\ cpc = "geod"
    /\ cone_refl' = [c \in Cells(ds_sub) |->
                        IF InCone(angle_diff[c], geod[c].dist, O, R)
                        THEN ds_sub.reflectivity[c] ELSE NaN]
    /\ cpc' = "done"
    /\ UNCHANGED <<cone_ds, lat0, lon0, heading, O, R, mask_bbox, ds_sub, geod,
                   angle_diff, cexc, dlvars, decvars, gridvars, rastervars,
                   headvars>>

(***************************************************************************)
(* compute_heading                                                         *)
(***************************************************************************)
\* the rows of the DataFrame: [lat, lon] in whole degrees
Points == {[lat |-> 45, lon |-> 3], [lat |-> 46, lon |-> 3]}
Tracks == SeqsUpTo(Points, MaxPoints)

\* the forward azimuths geod.inv returns lie in [-180, 180]
HeadingAzValues == {-180, -90, -1, 0, 90, 180}

\* the sequences of n azimuths
AzSeqs(n) == [1..n -> HeadingAzValues]

\* values[:-1] and values[1:] of n values have n - 1 entries, none when n = 0
Pairs(n) == IF n = 0 THEN 0 ELSE n - 1

\* az = (az + 360) % 360
Normalize(a) == (a + 360) % 360

\* compute_heading(df), up to az, _, _ = geod.inv(lon1, lat1, lon2, lat2)
ComputeHeading ==
    /\ Idle
    /\ \E t \in Tracks :
          /\ df' = t
          /\ \E a \in AzSeqs(Pairs(Len(t))) : az0' = a /\ az' = a
    /\ hpc' = "inv"
    /\ UNCHANGED <<headings, hexc, dlvars, decvars, gridvars, rastervars,
                   conevars>>

\* az = (az + 360) % 360
HeadingNormalize ==
    /\ hpc = "inv"
    /\ az' = [i \in 1..Len(az) |-> Normalize(az[i])]
    /\ hpc' = "normalized"
    /\ UNCHANGED <<df, az0, headings, hexc, dlvars, decvars, gridvars,
                   rastervars, conevars>>

\* return pd.Series([None, *az], index=df.index, name="heading")
HeadingReturn ==
    /\ hpc = "normalized"
    /\ 1 + Len(az) = Len(df)
    /\ headings' = <<NaN>> \o [i \in 1..Len(az) |-> Val(az[i])]
    /\ hpc' = "done"
    /\ UNCHANGED <<df, az0, az, hexc, dlvars, decvars, gridvars, rastervars,
                   conevars>>

\* pd.Series raises ValueError: the length of [None, *az] is not that of the index
HeadingLengthMismatch ==
    /\ hpc = "normalized"
    /\ 1 + Len(az) # Len(df)
    /\ hexc' = "ValueError"
    /\ hpc' = "done"
    /\ UNCHANGED <<df, az0, az, headings, dlvars, decvars, gridvars,
                   rastervars, conevars>>

(***************************************************************************)
(* Specifications                                                          *)
(***************************************************************************)
\* the API client, the download and the point lookup
Next ==
    \/ CallGetApiData
    \/ GetRadarComposite
    \/ AttemptOk
    \/ AttemptWriteError
    \/ AttemptHttpError
    \/ LoopExhausted
    \/ CompositeDecodeNone
    \/ CompositeDecodeArchive
    \/ ExtractRadarDa
    \/ LookupSkip
    \/ LookupNotExtractable
    \/ LookupReturn
    \/ LookupExhausted

Spec == Init /\ [][Next]_vars

\* the archive decoder
NextDecoder ==
    \/ RadarTarToDataset
    \/ RadarTarToGeotiff
    \/ ScanSkip
    \/ DatasetAppend
    \/ GeotiffWrite
    \/ FinishDataset
    \/ FinishGeotiff

SpecDecoder == Init /\ [][NextDecoder]_vars

\* the single-file decode
NextGrid ==
    \/ OdimRead
    \/ OdimMask
    \/ OdimNoise
    \/ OdimReturn

SpecGrid == Init /\ [][NextGrid]_vars

\* the GeoTIFF export of one grid
NextRaster ==
    \/ RadarTimestepDsToGeotiff
    \/ GeotiffFillna
    \/ GeotiffWhere
    \/ GeotiffClipEmpty
    \/ GeotiffToRaster

SpecRaster == Init /\ [][NextRaster]_vars

\* the cone extraction
NextCone ==
    \/ ExtractReflectivityCone
    \/ ConeBboxEmpty
    \/ ConeCrop
    \/ ConeGeod
    \/ ConeMask

SpecCone == Init /\ [][NextCone]_vars

\* the headings of a track
NextHeading ==
    \/ ComputeHeading
    \/ HeadingNormalize
    \/ HeadingReturn
    \/ HeadingLengthMismatch

SpecHeading == Init /\ [][NextHeading]_vars

(***************************************************************************)
(* Properties of get_api_data (checked under Spec)                         *)
(***************************************************************************)
NoSuccess == \A i \in 1..Len(log) : log[i] # "ok"
OnlyHttpErrors == \A i \in 1..Len(log) : log[i] = "http_error"
DirectCall == caller = "get_api_data"

\* C1: for every max_retries >= 1 and every sequence of attempt outcomes,
\* get_api_data makes at most max_retries fetches, makes no fetch after a
\* successful one, and on the first success has written the body to
\* output_path and returns that path.
C1_BoundedFetchesFirstSuccessReturns ==
    (pc # "idle" /\ max_retries >= 1) =>
        /\ Len(log) <= max_retries
        /\ \A i \in 1..Len(log) : log[i] = "ok" => i = Len(log)
        /\ (Len(log) > 0 /\ Last(log) = "ok") =>
              /\ file = "body"
              /\ writes = 1
              /\ DirectCall => (pc = "done" /\ result = "path" /\ exc = "none")

\* a direct call that fails twice and succeeds on its third and last attempt
C1_Witness ==
    /\ DirectCall /\ pc = "done" /\ max_retries = 3
    /\ log = <<"http_error", "http_error", "ok">>
    /\ result = "path"

\* C2: whenever get_api_data ends with no attempt having succeeded, for every
\* configured max_retries, stop_on_maxretry alone decides the outcome: true
\* raises RuntimeError, false returns without raising and without a path.
C2_OutcomeDecidedByFlagAlone ==
    (DirectCall /\ pc = "done" /\ NoSuccess) =>
        /\ stop_on_maxretry => exc = "RuntimeError"
        /\ ~stop_on_maxretry => (exc = "none" /\ result = "None")

\* C3: a call writes the output file exactly once when some attempt
\* succeeds, and leaves the output location unchanged when every attempt
\* fails with an HTTP error, whether it then raises or gives up.
C3_OneWriteOnSuccessNoneOnHttpFailure ==
    /\ ~NoSuccess => (writes = 1 /\ file = "body")
    /\ OnlyHttpErrors => (writes = 0 /\ file = file0)

\* every attempt failed with an HTTP error over an existing file, and the
\* call raised
C3_Witness ==
    /\ DirectCall /\ pc = "done" /\ exc = "RuntimeError"
    /\ Len(log) = 3 /\ OnlyHttpErrors
    /\ file0 = "old" /\ file = "old"

(***************************************************************************)
(* Half-day archive names (checked under Spec)                             *)
(***************************************************************************)
\* the half-day bucket of an instant, from its minutes since 00:00
HalfDayHourOf(d) == ((d.hour * 60 + d.minute) \div 720) * 12

\* the cache path of the half-day bucket of d, written out
HalfDayPathOf(d) ==
    RADAR_DATA_PATH
        \o <<"O", "P", "E", "R", "A", "_">> \o S_cirrus \o <<"_">>
        \o S_REFLECTIVITY \o <<"_">>
        \o Pad(d.year, 4) \o <<"-">> \o Pad(d.month, 2) \o <<"-">> \o Pad(d.day, 2)
        \o <<"T">> \o Pad(HalfDayHourOf(d), 2) \o <<"0", "0", "0", "0">>
        \o <<".", "t", "a", "r">>

\* C9: for every instant the half-day timestamp of the local archive name
\* rounds down to the 00:00 or 12:00 boundary of the same day, and the file
\* get_radar_composite writes (algo cirrus, product REFLECTIVITY) is the file
\* extract_radar_da opens for that instant.
C9_HalfDayNamesAgree ==
    /\ (caller = "get_radar_composite" /\ algo_name = S_cirrus
            /\ product_name = S_REFLECTIVITY) =>
          /\ output_path = LookupPath(input_date)
          /\ output_path = HalfDayPathOf(input_date)
    /\ op = "lookup" =>
          /\ tar_path = ClientPath(dat, S_cirrus, S_REFLECTIVITY)
          /\ tar_path = HalfDayPathOf(dat)

\* the client has saved the archive of an instant at 11:59:59 under the name
\* the lookup opens for that instant
C9_Witness ==
    /\ caller = "get_radar_composite" /\ algo_name = S_cirrus
    /\ product_name = S_REFLECTIVITY /\ file = "body"
    /\ input_date.hour = 11 /\ input_date.minute = 59
    /\ output_path = LookupPath(input_date)

(***************************************************************************)
(* Properties of the archive scans (checked under SpecDecoder)             *)
(***************************************************************************)
\* strftime("%Y%m%d%H%M") of an instant: the timestamp a member name carries
Fmt12(t) ==
    Pad(t.year, 4) \o Pad(t.month, 2) \o Pad(t.day, 2) \o Pad(t.hour, 2)
        \o Pad(t.minute, 2)

StampInstants ==
    { Instant(2025, 6, d, h, mi, 0, "utc") :
        d \in {17, 18}, h \in {11, 12}, mi \in {0, 5, 30} }

\* the member is a radar file whose name carries the timestamp t
Carries(m, t) == m.name = RadarName(Fmt12(t))
Stamped(m) == \E t \in StampInstants : Carries(m, t)
StampOf(m) == CHOOSE t \in StampInstants : Carries(m, t)

OnStep(m, T) == (StampOf(m).hour * 60 + StampOf(m).minute) % T = 0

ScanOp == op \in {"dataset", "geotiff"}
ScanDone == ScanOp /\ dpc = "done"
Examined == 1..Len(trace)

\* indices of the members decoded so far, in archive order
DecodedIdx ==
    SelectSeq([i \in 1..Len(trace) |-> i], LAMBDA i : trace[i] = "decoded")

Count(seq, x) == Cardinality({i \in 1..Len(seq) : seq[i] = x})
Range(seq) == {seq[i] : i \in 1..Len(seq)}

\* C5 as stated: the returned series is sorted ascending by timestamp and
\* no timestamp appears more than once on its time axis.
C5_SortedAndDeduplicated ==
    (op = "dataset" /\ dresult = "series") =>
        \A i, j \in 1..Len(series) :
            i < j => TsLess(series[i].time, series[j].time)

\* C5 amended: the returned series is sorted ascending (equal timestamps
\* allowed) and holds exactly the tagged grids of the retained members, each
\* as often as it was retained: timestamps are not deduplicated.
C5_SortedKeepsEveryRetained ==
    (op = "dataset" /\ dresult = "series") =>
        /\ \A i, j \in 1..Len(series) :
              i < j => ~TsLess(series[j].time, series[i].time)
        /\ Len(series) = Len(datasets)
        /\ \A g \in Range(datasets) \cup Range(series) :
              Count(series, g) = Count(datasets, g)

\* an archive stored latest first, whose two members are both retained
C5_Witness ==
    /\ op = "dataset" /\ dresult = "series" /\ Len(datasets) = 2
    /\ TsLess(datasets[2].time, datasets[1].time)
    /\ series = <<datasets[2], datasets[1]>>

\* the time series a finished radar_tar_to_dataset call returned
Returned == IF dresult = "series" THEN series ELSE <<>>

\* C6 as stated: an unparseable member is skipped without aborting the scan,
\* and the series holds exactly one grid per member with a parseable
\* timestamp that passes the time-step filter.
C6_OneGridPerParseableOnStepMember ==
    (op = "dataset" /\ dpc = "done") =>
        /\ Len(trace) = Len(archive)
        /\ Len(Returned) =
              Cardinality({i \in 1..Len(archive) :
                              Stamped(archive[i]) /\ OnStep(archive[i], timestep)})

\* the member is parseable, on the time step and extractable
Qualifies(m, T) == Stamped(m) /\ OnStep(m, T) /\ m.isfile

\* C6 amended: an unparseable member is skipped without aborting the scan,
\* and the series holds exactly one grid per member that has a parseable
\* timestamp, passes the time-step filter and can be extracted from the
\* archive (is a regular file), and none for any other member.
C6_OneGridPerExtractableOnStepMember ==
    (op = "dataset" /\ dpc = "done") =>
        /\ Len(trace) = Len(archive)
        /\ dresult \in {"series", "ValueError"}
        /\ Len(Returned) =
              Cardinality({i \in 1..Len(archive) : Qualifies(archive[i], timestep)})
        /\ \A i \in 1..Len(archive) :
              /\ Qualifies(archive[i], timestep) =>
                    \E k \in 1..Len(Returned) :
                        /\ Returned[k].time = StampOf(archive[i])
                        /\ Returned[k].ds = OdimHdf5ToDataset(archive[i].data, TRUE)
              /\ ~Stamped(archive[i]) => trace[i] \in {"not_hdf5", "unparseable"}

\* two members, the first malformed, timestep 60: exactly one grid
C6_Witness ==
    /\ op = "dataset" /\ dpc = "done" /\ timestep = 60
    /\ trace = <<"unparseable", "decoded">>
    /\ dresult = "series" /\ Len(series) = 1

ZeroRetained == \A i \in Examined : trace[i] # "decoded"
NoRadarFile == \A i \in 1..Len(archive) : ~EndsWith(archive[i].name, DOT_HDF5)
AllUnparseable ==
    \A i \in 1..Len(archive) :
        EndsWith(archive[i].name, DOT_HDF5) => ~Stamped(archive[i])
AllOffStep ==
    \A i \in 1..Len(archive) :
        Stamped(archive[i]) => ~OnStep(archive[i], timestep)
AllOffStepOrNotExtractable ==
    \A i \in 1..Len(archive) :
        Stamped(archive[i]) =>
            (~OnStep(archive[i], timestep) \/ ~archive[i].isfile)

\* C7 as stated: the scan fails with ValueError iff it retains zero members,
\* that is when no member is a radar file, every radar member is unparseable
\* or every parseable member is rejected by the time-step filter; it never
\* returns an empty series.
C7_ValueErrorIffNothingOnStep ==
    ScanDone =>
        /\ dresult = "ValueError" <=> ZeroRetained
        /\ ZeroRetained <=> (NoRadarFile \/ AllUnparseable \/ AllOffStep)
        /\ dresult = "series" => series # <<>>

\* C7 amended: the scan fails with ValueError iff it retains zero members,
\* that is when no member is a radar file, every radar member is unparseable,
\* or every parseable member is rejected by the time-step filter or cannot
\* be extracted; it never returns an empty series.
C7_ValueErrorIffNothingRetained ==
    ScanDone =>
        /\ dresult = "ValueError" <=> ZeroRetained
        /\ ZeroRetained <=>
              (NoRadarFile \/ AllUnparseable \/ AllOffStepOrNotExtractable)
        /\ dresult \in {"ValueError", "series", "ok"}
        /\ dresult = "series" => (op = "dataset" /\ series # <<>>)
        /\ dresult = "ok" => (op = "geotiff" /\ tifs # <<>>)

\* two radar members, both rejected by the time step of one hour
C7_Witness ==
    /\ op = "dataset" /\ dpc = "done" /\ timestep = 60
    /\ trace = <<"filtered", "filtered">>
    /\ dresult = "ValueError"

(***************************************************************************)
(* Properties of the point lookup (checked under Spec)                     *)
(***************************************************************************)
\* the member is a radar file whose timestamp equals the target instant
IsTarget(m) ==
    /\ dat.second = 0
    /\ Carries(m, Instant(dat.year, dat.month, dat.day, dat.hour, dat.minute,
                          0, "utc"))
Matches == {i \in 1..Len(archive) : IsTarget(archive[i])}
FirstMatch == CHOOSE i \in Matches : \A j \in Matches : i <= j
LookupDone == op = "lookup" /\ dpc = "done"

\* C8 as stated: extract_radar_da returns None without raising when the
\* archive is absent or holds no member with the target timestamp; otherwise
\* it returns the grid of one matching member only and stops scanning at the
\* first match.
C8_GridWheneverAMemberMatches ==
    LookupDone =>
        /\ dresult \in {"None", "grid"}
        /\ (~exists \/ Matches = {}) => dresult = "None"
        /\ (exists /\ Matches # {}) =>
              /\ dresult = "grid"
              /\ grid = OdimHdf5ToDataset(archive[FirstMatch].data, TRUE)
              /\ Len(trace) = FirstMatch

\* C8 amended: extract_radar_da returns None without raising when the archive
\* is absent, holds no member with the target timestamp, or the first such
\* member cannot be extracted; otherwise it returns the grid of the first
\* matching member only.  In both cases it stops scanning at the first match.
C8_GridOfFirstMatchIfExtractable ==
    LookupDone =>
        /\ dresult \in {"None", "grid"}
        /\ (~exists \/ Matches = {}) =>
              (dresult = "None" /\ Len(trace) = Len(archive))
        /\ (exists /\ Matches # {}) =>
              /\ Len(trace) = FirstMatch
              /\ IF archive[FirstMatch].isfile
                 THEN /\ dresult = "grid"
                      /\ grid = OdimHdf5ToDataset(archive[FirstMatch].data, TRUE)
                 ELSE dresult = "None"

\* a naive target of 12:00 and two members of that time with different
\* contents: the grid of the first is returned after one member
C8_Witness ==
    /\ LookupDone /\ dat.tz = "naive" /\ Len(archive) = 2
    /\ IsTarget(archive[1]) /\ IsTarget(archive[2])
    /\ archive[1].data # archive[2].data
    /\ dresult = "grid" /\ grid = OdimHdf5ToDataset(archive[1].data, TRUE)
    /\ Len(trace) = 1

(***************************************************************************)
(* Properties of the single-file decode (checked under SpecGrid)           *)
(***************************************************************************)
\* the raw value behind cell c of the north-up grid
RawAt(c) == hdf.data[<<hdf.ysize + 1 - c[1], c[2]>>]
IsNoData(v) == ~v.nan /\ v.v = NODATA
Negative(v) == ~v.nan /\ v.v < 0

\* C10: for every decoded grid and cell, mask is 1 exactly when the raw
\* value differs from the no-data sentinel; mask 0 implies a not-a-number
\* reflectivity, also after noise flooring; with noise_as_zero no valid cell
\* is left negative: a negative valid value becomes exactly 0.
C10_MaskAndNoiseFloor ==
    /\ gpc \in {"masked", "floored", "decoded"} =>
          \A c \in Cells(hdf) :
             /\ mask[c] \in {0, 1}
             /\ mask[c] = 1 <=> ~IsNoData(RawAt(c))
             /\ mask[c] = 0 => reflectivity[c].nan
             /\ (mask[c] = 1 /\ ~Negative(RawAt(c))) => reflectivity[c] = RawAt(c)
    /\ gpc \in {"floored", "decoded"} =>
          \A c \in Cells(hdf) :
             IF noise_as_zero
             THEN /\ ~Negative(reflectivity[c])
                  /\ (mask[c] = 1 /\ Negative(RawAt(c))) => reflectivity[c] = Val(0)
             ELSE mask[c] = 1 => reflectivity[c] = RawAt(c)
    /\ gpc = "decoded" =>
          /\ ds.reflectivity = reflectivity /\ ds.mask = mask
          /\ ds = OdimHdf5ToDataset(hdf, noise_as_zero)

\* a decoded grid whose northern row was no-data and whose southern row was a
\* negative valid value, floored to 0
C10_Witness ==
    /\ gpc = "decoded" /\ noise_as_zero
    /\ hdf.data[<<1, 1>>] = Val(-5) /\ hdf.data[<<hdf.ysize, 1>>] = Val(NODATA)
    /\ ds.mask[<<1, 1>>] = 0 /\ ds.reflectivity[<<1, 1>>] = NaN
    /\ ds.mask[<<hdf.ysize, 1>>] = 1 /\ ds.reflectivity[<<hdf.ysize, 1>>] = Val(0)

(***************************************************************************)
(* Properties of extract_reflectivity_cone (checked under SpecCone)        *)
(***************************************************************************)
ConeMasked == cpc = "done" /\ cexc = "none"
ConeDeviated == cpc = "geod" \/ ConeMasked

\* the deviation of azimuth a from bearing h, as the representative of
\* a - h modulo one turn in the interval lo..hi
Deviation(a, h, lo, hi) == CHOOSE d \in lo..hi : (d - (a - h)) % 360 = 0

\* the cell of the output holds its reflectivity exactly when it lies in the
\* cone, and not-a-number otherwise
ConeMembership ==
    ConeMasked =>
        /\ DOMAIN cone_refl = Cells(ds_sub)
        /\ \A c \in Cells(ds_sub) :
              IF 2 * Abs(angle_diff[c]) <= O /\ geod[c].dist <= 1000 * R
              THEN cone_refl[c] = ds_sub.reflectivity[c]
              ELSE cone_refl[c] = NaN

\* C11 (as stated): the signed deviation of every cell of the crop from the
\* central bearing is normalized to (-180, 180], and the cell keeps its
\* reflectivity iff |deviation| <= O/2 and distance <= R km, both bounds
\* inclusive; every other cell is not-a-number.
C11_DeviationInLeftOpenInterval ==
    /\ ConeDeviated =>
          \A c \in Cells(ds_sub) :
             angle_diff[c] = Deviation(geod[c].az, heading, -179, 180)
    /\ ConeMembership

\* C11 (amended): the signed deviation of every cell of the crop from the
\* central bearing is normalized to [-180, 180): a cell diametrically opposite
\* to the bearing has deviation -180, not 180.  The cell keeps its
\* reflectivity iff |deviation| <= O/2 and distance <= R km, both bounds
\* inclusive; every other cell is not-a-number.
C11_DeviationInRightOpenInterval ==
    /\ ConeDeviated =>
          \A c \in Cells(ds_sub) :
             angle_diff[c] = Deviation(geod[c].az, heading, -180, 179)
    /\ ConeMembership

\* a cell whose deviation needed the normalization lies exactly on both
\* bounds and keeps its reflectivity, while another cell is blanked
C11_Witness ==
    /\ ConeMasked /\ R > 0 /\ O > 0
    /\ \E c \in Cells(ds_sub) :
          /\ geod[c].az - heading # angle_diff[c]
          /\ 2 * Abs(angle_diff[c]) = O
          /\ geod[c].dist = 1000 * R
          /\ ~cone_refl[c].nan

\* the cells of the argument grid inside the bounding box around the apex
InBbox(c) ==
    /\ Abs(cone_ds.lat[c] - lat0) <= Dlat(R)
    /\ Abs(cone_ds.lon[c] - lon0) <= Dlon(R, lat0)
Inside == {c \in Cells(cone_ds) : InBbox(c)}
InsideRows == {c[1] : c \in Inside}
InsideCols == {c[2] : c \in Inside}
ConeCropped == cpc \in {"cropped", "geod"} \/ ConeMasked

\* ds_sub is the block of rows r1..r2 and columns c1..c2 of the argument grid
IsBlock(r1, r2, c1, c2) ==
    /\ ds_sub.ysize = r2 - r1 + 1
    /\ ds_sub.xsize = c2 - c1 + 1
    /\ \A c \in Cells(ds_sub) :
          LET src == <<r1 + c[1] - 1, c1 + c[2] - 1>>
          IN  /\ ds_sub.lat[c] = cone_ds.lat[src]
              /\ ds_sub.lon[c] = cone_ds.lon[src]
              /\ ds_sub.reflectivity[c] = cone_ds.reflectivity[src]

\* C12: the call fails with ValueError when no grid cell lies inside the
\* bounding box around the apex; otherwise the grid is cropped to the minimal
\* row span and column span enclosing the cells inside the bounding box, so
\* that each of them is in the crop, and the output has the cells of the crop
\* and no other.
C12_EmptyBboxFailsElseMinimalCrop ==
    /\ (cpc = "done" /\ cexc = "ValueError") => Inside = {}
    /\ (cpc \notin {"idle", "bbox"} /\ Inside = {}) =>
          (cpc = "done" /\ cexc = "ValueError" /\ cone_refl = <<>>)
    /\ ConeCropped =>
          /\ Inside # {}
          /\ \E r1 \in InsideRows, r2 \in InsideRows,
                c1 \in InsideCols, c2 \in InsideCols :
                /\ \A c \in Inside : r1 <= c[1] /\ c[1] <= r2
                                     /\ c1 <= c[2] /\ c[2] <= c2
                /\ IsBlock(r1, r2, c1, c2)
    /\ ConeMasked => DOMAIN cone_refl = Cells(ds_sub)

\* a crop narrower than the grid that still holds a cell outside the
\* bounding box
C12_Witness ==
    /\ ConeMasked
    /\ ds_sub.xsize < cone_ds.xsize
    /\ Cardinality(Inside) < ds_sub.ysize * ds_sub.xsize

(***************************************************************************)
(* Properties of radar_timestep_ds_to_geotiff (checked under SpecRaster)   *)
(***************************************************************************)
\* the two replacements in the order of the claim, on the argument grid
TwoStepReplace(c) ==
    IF tif_ds.mask[c] = 0 THEN Val(missing_value)
    ELSE IF tif_ds.reflectivity[c].nan THEN Val(0)
    ELSE tif_ds.reflectivity[c]

\* the argument grid is the same before and after every step of the call
InputNotModified == [][rpc # "idle" => tif_ds' = tif_ds]_vars

\* C13 (as stated): the value written for every cell is the result of the
\* two-step replace (not-a-number becomes 0, then mask 0 becomes the missing
\* sentinel): mask 0 always holds the sentinel, mask 1 holds its reflectivity,
\* or 0 when that is not-a-number.  The input grid is not modified.
C13_WrittenIsTwoStepReplace ==
    /\ [](rpc = "written" => \A c \in DOMAIN raster : raster[c] = TwoStepReplace(c))
    /\ InputNotModified

\* C13 (amended): the array handed to the writer is the result of the
\* two-step replace, and the value written for every cell is that result
\* rounded to single precision, the file being written as float32.  The
\* input grid is not modified.
C13_WrittenIsTwoStepReplaceAsFloat32 ==
    /\ [](rpc \in {"masked", "written", "NoDataInBounds"} =>
            \A c \in Cells(tif_ds) : refl[c] = TwoStepReplace(c))
    /\ [](rpc = "written" =>
            \A c \in DOMAIN raster : raster[c] = Float32(TwoStepReplace(c)))
    /\ InputNotModified

\* a whole grid is written with the default sentinel: a masked cell that had
\* a reflectivity holds the sentinel, a valid cell without one holds 0
C13_Witness ==
    /\ rpc = "written" /\ bbox = "None"
    /\ missing_value = DEFAULT_MISSING_VALUE
    /\ \E c \in Cells(tif_ds) :
          /\ tif_ds.mask[c] = 0 /\ tif_ds.reflectivity[c] = Val(7)
          /\ raster[c] = Val(DEFAULT_MISSING_VALUE)
    /\ \E c \in Cells(tif_ds) :
          /\ tif_ds.mask[c] = 1 /\ tif_ds.reflectivity[c] = NaN
          /\ raster[c] = Val(0)

(***************************************************************************)
(* Properties of compute_heading (checked under SpecHeading)               *)
(***************************************************************************)
HeadingDone == hpc = "done"

\* the entries of a returned Series: the first undefined, entry i the azimuth
\* from point i-1 to point i brought into [0, 360)
HeadingEntries ==
    /\ Len(headings) >= 1 => headings[1] = NaN
    /\ \A i \in 2..Len(headings) :
          /\ ~headings[i].nan
          /\ headings[i].v \in 0..359
          /\ (headings[i].v - az0[i - 1]) % 360 = 0

\* C14: for every sequence of points, those of length 0 and 1 included,
\* compute_heading returns a sequence of the same length whose entry 0 is
\* undefined and whose entry i >= 1 is the azimuth from point i-1 to point i
\* plus 360 modulo 360, hence in [0, 360).
C14_SameLengthHeadings ==
    HeadingDone =>
        /\ hexc = "none"
        /\ Len(headings) = Len(df)
        /\ HeadingEntries

\* what holds of the calls that return: the track has at least one point
HeadingsOfNonEmptyTrack ==
    HeadingDone =>
        IF Len(df) = 0 THEN hexc = "ValueError" /\ headings = <<>>
        ELSE hexc = "none" /\ Len(headings) = Len(df) /\ HeadingEntries

(***************************************************************************)
(* The waits of get_api_data and the decoding step of the client           *)
(* (checked under Spec)                                                    *)
(***************************************************************************)
\* get_api_data has returned or raised
DownloadEnded == pc \in {"downloaded", "done"}

\* the failed attempts made so far that were not the final attempt
FailedBeforeFinal ==
    {i \in 1..Len(log) : log[i] = "http_error" /\ i < max_retries}

\* C15: the fixed wait happens only between two attempts: a sleep follows
\* each failed attempt except the final one and never a successful attempt,
\* so a call that has made k >= 1 attempts when it ends has slept exactly
\* k - 1 times (a call that makes no attempt never sleeps), and the call ends
\* directly after its last attempt: every attempt before the last one failed.
C15_SleepsOnlyBetweenAttempts ==
    /\ sleeps = Cardinality(FailedBeforeFinal)
    /\ DownloadEnded =>
          /\ \A i \in 1..(Len(log) - 1) : log[i] = "http_error"
          /\ Len(log) >= 1 => sleeps = Len(log) - 1
          /\ Len(log) = 0 => sleeps = 0

\* a call that succeeds at its third attempt has slept twice
C15_Witness ==
    /\ DirectCall /\ pc = "done"
    /\ log = <<"http_error", "http_error", "ok">>
    /\ sleeps = 2

\* the client's download gave up without raising: every attempt failed with
\* an HTTP error and get_api_data returned None
GaveUp ==
    /\ caller = "get_radar_composite"
    /\ DownloadEnded
    /\ Len(log) = max_retries /\ OnlyHttpErrors

\* C16: get_radar_composite runs the archive decoder only on the path of a
\* successful download: when the download gives up without raising, the
\* decoder is not invoked on a missing path and the call does not fail
\* inside the decoder.
C16_DecoderOnlyAfterSuccessfulDownload ==
    GaveUp => exc = "none"

====
